---- MODULE Spec2Model ----
(***************************************************************************)
(* Model of the fund analytics chatbot: the query-plan validator and       *)
(* executor (executor.py), the plan -> execute -> explain pipeline         *)
(* (chatbot.py, llm_planner.py, llm_explainer.py) and the HTTP endpoints   *)
(* (api.py).                                                               *)
(*                                                                         *)
(* JSON values and table cells are tagged records so that values of        *)
(* different JSON types can be compared: a cell is a string, a number or   *)
(* a missing value (NaN / null).  A result value is a rational num/den     *)
(* (mean divides) or NaN.                                                  *)
(***************************************************************************)
EXTENDS Integers, Sequences, FiniteSets, TLC

----------------------------------------------------------------------------
(* Bounds of the model *)

\* rows of the holdings table drawn at construction
MaxRows == 3
\* filter clauses of a generated query plan
MaxFilters == 2
\* largest limit a generated query plan carries (the smallest is -MaxLimit)
MaxLimit == 2
\* characters of a chat question
MaxQuestionLen == 2

----------------------------------------------------------------------------
(* config.py / executor.py constants *)

ALLOWED_FILES == <<"trades.csv", "holdings.csv">>
ALLOWED_OPERATIONS == <<"count", "aggregate", "group_by", "sort", "filter", "limit">>
ALLOWED_AGGREGATIONS == <<"sum", "mean", "min", "max", "count">>
ERROR_MESSAGE == "Sorry can not find the answer"
\* config.py: the filter operators the planner is told it may use
ALLOWED_FILTER_OPERATORS == <<"==", "!=", ">", "<", ">=", "<=", "in">>
\* llm_planner.py: the plan format's sort directions
SortDirections == {"asc", "desc"}

InList(x, l) == \E i \in 1..Len(l) : l[i] = x

----------------------------------------------------------------------------
(* JSON / dataframe values *)

\* a key that is not in the dict
ABSENT == "<absent>"
\* JSON null (Python None)
NULL == "<null>"

Str(s) == [k |-> "str", s |-> s, n |-> 0]
Num(i) == [k |-> "num", s |-> "", n |-> i]
\* a missing cell (NaN after read_csv) or a null literal
NA == [k |-> "na", s |-> "", n |-> 0]

\* Python truthiness of an optional string field: `'f' in plan and plan['f']`
Truthy(x) == x \notin {ABSENT, NULL, ""}

\* Optional[pd.DataFrame]: loaded = FALSE is None
NoFrame == [loaded |-> FALSE, cols |-> {}, rows |-> <<>>]
Frame(cols, rows) == [loaded |-> TRUE, cols |-> cols, rows |-> rows]

\* result values: a rational n/d (d > 0) or NaN
Val(n) == [k |-> "num", n |-> n, d |-> 1]
Rat(n, d) == [k |-> "num", n |-> n, d |-> d]
NaN == [k |-> "nan", n |-> 0, d |-> 1]

\* float comparison a < b; any comparison with NaN is false
ValLess(a, b) == a.k = "num" /\ b.k = "num" /\ a.n * b.d < b.n * a.d

\* the result of a plan: None, a scalar, or a dict (insertion-ordered items)
ResNull == [k |-> "null", v |-> NaN, items |-> <<>>]
ResScalar(v) == [k |-> "scalar", v |-> v, items |-> <<>>]
ResDict(items) == [k |-> "dict", v |-> NaN, items |-> items]
Item(key, val) == [key |-> key, val |-> val]

----------------------------------------------------------------------------
(* Query plans (the JSON object the planner returns) *)

FilesAbsent == [k |-> "absent", l |-> <<>>]
FilesNotList(s) == [k |-> "notlist", l |-> <<s>>]
FilesList(l) == [k |-> "list", l |-> l]

FiltersAbsent == [k |-> "absent", l |-> <<>>]
FiltersNull == [k |-> "null", l |-> <<>>]
FiltersList(l) == [k |-> "list", l |-> l]

\* a filter clause: a JSON object, or a JSON number / string in its place
Clause(column, operator, value) ==
    [k |-> "obj", column |-> column, operator |-> operator, value |-> value]
ClauseNum == [k |-> "num", column |-> ABSENT, operator |-> ABSENT, value |-> NA]
ClauseStr == [k |-> "str", column |-> ABSENT, operator |-> ABSENT, value |-> NA]

LimitAbsent == [k |-> "absent", n |-> 0]
Limit(n) == [k |-> "int", n |-> n]

Plan(files, operation, group_by, metric, aggregation, filters, sort, limit) ==
    [isNone |-> FALSE, files |-> files, operation |-> operation,
     group_by |-> group_by, metric |-> metric, aggregation |-> aggregation,
     filters |-> filters, sort |-> sort, limit |-> limit]

\* generate_plan returned None
NoPlan ==
    [isNone |-> TRUE, files |-> FilesAbsent, operation |-> ABSENT,
     group_by |-> ABSENT, metric |-> ABSENT, aggregation |-> ABSENT,
     filters |-> FiltersAbsent, sort |-> ABSENT, limit |-> LimitAbsent]

----------------------------------------------------------------------------
(* QueryExecutor *)

\* the executor object: its two optional dataframes
Executor(trades, holdings) == [trades_df |-> trades, holdings_df |-> holdings]

get_dataframe(ex, filename) ==
    IF filename = "trades.csv" THEN ex.trades_df
    ELSE IF filename = "holdings.csv" THEN ex.holdings_df
    ELSE NoFrame

Valid == [outcome |-> "return", valid |-> TRUE, error |-> ""]
Invalid(msg) == [outcome |-> "return", valid |-> FALSE, error |-> msg]
Raises(msg) == [outcome |-> "raise", valid |-> FALSE, error |-> msg]

\* lines 79-86: every listed file is allowed and loaded
RECURSIVE validate_files(_, _, _)
validate_files(ex, files, i) ==
    IF i > Len(files) THEN Valid
    ELSE IF ~InList(files[i], ALLOWED_FILES)
         THEN Invalid("File is not allowed")
    ELSE IF ~get_dataframe(ex, files[i]).loaded
         THEN Invalid("File not found or could not be loaded")
    ELSE validate_files(ex, files, i + 1)

\* lines 112-114: the filter clauses against one dataframe's columns
RECURSIVE validate_filter_items(_, _, _)
validate_filter_items(df, items, j) ==
    IF j > Len(items) THEN Valid
    ELSE LET filter_item == items[j] IN
         IF filter_item.k = "num"
         THEN Raises("argument of type 'int' is not iterable")
         ELSE IF filter_item.k = "obj" /\ filter_item.column # ABSENT
                 /\ filter_item.column \notin df.cols
         THEN Invalid("Filter column not found")
         ELSE validate_filter_items(df, items, j + 1)

\* lines 101-114: the referenced columns exist in every listed file
RECURSIVE validate_columns(_, _, _)
validate_columns(ex, plan, i) ==
    IF i > Len(plan.files.l) THEN Valid
    ELSE LET df == get_dataframe(ex, plan.files.l[i])
             fl == IF plan.filters.k = "absent" THEN Valid
                   ELSE IF plan.filters.k = "null"
                   THEN Raises("'NoneType' object is not iterable")
                   ELSE validate_filter_items(df, plan.filters.l, 1)
         IN IF Truthy(plan.group_by) /\ plan.group_by \notin df.cols
            THEN Invalid("Column not found")
            ELSE IF Truthy(plan.metric) /\ plan.metric \notin df.cols
            THEN Invalid("Column not found")
            ELSE IF fl # Valid THEN fl
            ELSE validate_columns(ex, plan, i + 1)

\* lines 94-98
validate_aggregation(plan) ==
    IF plan.operation = "aggregate"
    THEN IF plan.aggregation = ABSENT
         THEN Invalid("Operation 'aggregate' requires 'aggregation' field")
         ELSE IF ~InList(plan.aggregation, ALLOWED_AGGREGATIONS)
         THEN Invalid("Aggregation not allowed")
         ELSE Valid
    ELSE Valid

validate_plan(ex, plan) ==
    IF plan.files.k = "absent" THEN Invalid("Missing 'files' field in plan")
    ELSE IF plan.operation = ABSENT THEN Invalid("Missing 'operation' field in plan")
    ELSE IF plan.files.k # "list" THEN Invalid("'files' must be a list")
    ELSE LET vf == validate_files(ex, plan.files.l, 1) IN
         IF vf # Valid THEN vf
         ELSE IF ~InList(plan.operation, ALLOWED_OPERATIONS)
         THEN Invalid("Operation not allowed")
         ELSE LET va == validate_aggregation(plan) IN
              IF va # Valid THEN va
              ELSE validate_columns(ex, plan, 1)

----------------------------------------------------------------------------
(* pandas / Python primitives used by execute_plan *)

\* lexicographic order of the strings that occur in table cells
StrOrder == <<"A", "B", "C">>
StrRank(s) == CHOOSE i \in 1..Len(StrOrder) : StrOrder[i] = s

\* a < b for two non-missing cells of one column
CellLess(a, b) ==
    IF a.k = "num" /\ b.k = "num" THEN a.n < b.n
    ELSE IF a.k = "str" /\ b.k = "str" THEN StrRank(a.s) < StrRank(b.s)
    ELSE a.k = "num" /\ b.k = "str"

\* series == value: a missing cell equals nothing, nothing equals null
CellEq(c, v) == c.k # "na" /\ v.k # "na" /\ c = v

\* an ordering comparison of a cell with a literal of another type raises
\* TypeError (a list literal accompanies operator "in" only)
CmpRaises(operator, c, v) ==
    IF operator \in {">", "<", ">=", "<="} THEN c.k # "na" /\ c.k # v.k
    ELSE IF operator = "in" THEN v.k # "list"
    ELSE FALSE

\* the boolean mask of one cell under `df[column] <operator> value`
Mask(operator, c, v) ==
    IF operator = "==" THEN CellEq(c, v)
    ELSE IF operator = "!=" THEN ~CellEq(c, v)
    ELSE IF operator = ">" THEN c.k # "na" /\ CellLess(v, c)
    ELSE IF operator = "<" THEN c.k # "na" /\ CellLess(c, v)
    ELSE IF operator = ">=" THEN c.k # "na" /\ ~CellLess(c, v)
    ELSE IF operator = "<=" THEN c.k # "na" /\ ~CellLess(v, c)
    ELSE \* "in": isin of a one-element list of a string
         c.k = "str" /\ c.s = v.s

Reverse(s) == [i \in 1..Len(s) |-> s[Len(s) + 1 - i]]

\* the slice off by one: s[:k+1]
Slice_OneMore(s, k) ==
    IF k >= 0 THEN SubSeq(s, 1, IF k + 1 < Len(s) THEN k + 1 ELSE Len(s))
    ELSE SubSeq(s, 1, IF Len(s) + k + 1 > 0 THEN Len(s) + k + 1 ELSE 0)

\* sequence slice s[:k] of Python: a negative k counts from the end
Slice(s, k) ==
    IF k >= 0 THEN SubSeq(s, 1, IF k < Len(s) THEN k ELSE Len(s))
    ELSE SubSeq(s, 1, IF Len(s) + k > 0 THEN Len(s) + k ELSE 0)

\* list.sort of CPython for fewer than 64 items: one run found by
\* count_run, the rest inserted by binarysort; x[1] (the value) is the key
RECURSIVE RunEnd(_, _, _)
RunEnd(s, i, desc) ==
    IF i > Len(s) THEN Len(s)
    ELSE IF ValLess(s[i].val, s[i - 1].val) = desc THEN RunEnd(s, i + 1, desc)
    ELSE i - 1

RECURSIVE Bisect(_, _, _, _)
Bisect(s, pivot, l, r) ==
    IF l >= r THEN l
    ELSE LET p == l + ((r - l) \div 2) IN
         IF ValLess(pivot.val, s[p].val) THEN Bisect(s, pivot, l, p)
         ELSE Bisect(s, pivot, p + 1, r)

RECURSIVE BinarySort(_, _)
BinarySort(s, start) ==
    IF start > Len(s) THEN s
    ELSE LET l == Bisect(s, s[start], 1, start)
             t == SubSeq(s, 1, l - 1) \o <<s[start]>> \o SubSeq(s, l, start - 1)
                    \o SubSeq(s, start + 1, Len(s))
         IN BinarySort(t, start + 1)

PySorted(items, reverse) ==
    IF Len(items) < 2 THEN items
    ELSE LET a == IF reverse THEN Reverse(items) ELSE items
             desc == ValLess(a[2].val, a[1].val)
             n == RunEnd(a, 3, desc)
             b == IF desc THEN Reverse(SubSeq(a, 1, n)) \o SubSeq(a, n + 1, Len(a))
                  ELSE a
             c == BinarySort(b, n + 1)
         IN IF reverse THEN Reverse(c) ELSE c

----------------------------------------------------------------------------
(* execute_plan *)

RECURSIVE Gcd(_, _)
Gcd(a, b) == IF b = 0 THEN a ELSE Gcd(b, a % b)

RECURSIVE SumNums(_)
SumNums(cells) == IF cells = <<>> THEN 0 ELSE Head(cells).n + SumNums(Tail(cells))

RECURSIVE MinNums(_)
MinNums(cells) ==
    IF Len(cells) = 1 THEN cells[1].n
    ELSE LET m == MinNums(Tail(cells)) IN IF cells[1].n < m THEN cells[1].n ELSE m

RECURSIVE MaxNums(_)
MaxNums(cells) ==
    IF Len(cells) = 1 THEN cells[1].n
    ELSE LET m == MaxNums(Tail(cells)) IN IF cells[1].n > m THEN cells[1].n ELSE m

\* sum / count as a float, in lowest terms
Mean(total, count) ==
    LET g == Gcd(IF total < 0 THEN -total ELSE total, count)
    IN Rat(total \div g, count \div g)

\* the reducers with the sum and count branches swapped
Reduce_SumCountSwapped(aggregation, cells) ==
    LET nums == SelectSeq(cells, LAMBDA c : c.k = "num") IN
    IF aggregation = "sum" THEN Val(Len(nums))
    ELSE IF aggregation = "count" THEN Val(SumNums(nums))
    ELSE IF nums = <<>> THEN NaN
    ELSE IF aggregation = "mean" THEN Mean(SumNums(nums), Len(nums))
    ELSE IF aggregation = "min" THEN Val(MinNums(nums))
    ELSE Val(MaxNums(nums))

\* Series.sum() / mean() / min() / max() / count() of a numeric column:
\* missing cells are skipped; mean, min and max of nothing are NaN
Reduce(aggregation, cells) ==
    LET nums == SelectSeq(cells, LAMBDA c : c.k = "num") IN
    IF aggregation = "sum" THEN Val(SumNums(nums))
    ELSE IF aggregation = "count" THEN Val(Len(nums))
    ELSE IF nums = <<>> THEN NaN
    ELSE IF aggregation = "mean" THEN Mean(SumNums(nums), Len(nums))
    ELSE IF aggregation = "min" THEN Val(MinNums(nums))
    ELSE Val(MaxNums(nums))

Column(rows, column) == [i \in 1..Len(rows) |-> rows[i][column]]

\* the group keys of df.groupby(column): the distinct non-missing values,
\* in increasing order (dropna=True, sort=True)
RECURSIVE SortedCells(_)
SortedCells(S) ==
    IF S = {} THEN <<>>
    ELSE LET m == CHOOSE x \in S : \A y \in S \ {x} : CellLess(x, y)
         IN <<m>> \o SortedCells(S \ {m})

GroupKeys(rows, column) ==
    SortedCells({rows[i][column] : i \in 1..Len(rows)} \ {NA})

GroupRows(rows, column, key) == SelectSeq(rows, LAMBDA r : r[column] = key)

\* df.groupby(group_by).size().to_dict()
GroupSize(rows, group_by) ==
    LET keys == GroupKeys(rows, group_by) IN
    [i \in 1..Len(keys) |->
        Item(keys[i], Val(Len(GroupRows(rows, group_by, keys[i]))))]

\* df.groupby(group_by)[metric].<aggregation>().to_dict()
GroupReduce(rows, group_by, metric, aggregation) ==
    LET keys == GroupKeys(rows, group_by) IN
    [i \in 1..Len(keys) |->
        Item(keys[i],
             Reduce(aggregation, Column(GroupRows(rows, group_by, keys[i]), metric)))]

\* lines 151-169: one filter clause applied to the current rows
FilterOperators == {"==", "!=", ">", "<", ">=", "<=", "in"}

apply_filter(df, rows, filter_item) ==
    IF filter_item.k # "obj"
    THEN [err |-> "object has no attribute 'get'", rows |-> rows]
    ELSE LET column == filter_item.column
             operator == IF filter_item.operator = ABSENT THEN "=="
                         ELSE filter_item.operator
             value == filter_item.value
         IN IF operator \notin FilterOperators THEN [err |-> "", rows |-> rows]
            ELSE IF column \notin df.cols THEN [err |-> "KeyError", rows |-> rows]
            ELSE IF \E i \in 1..Len(rows) : CmpRaises(operator, rows[i][column], value)
            THEN [err |-> "TypeError in comparison", rows |-> rows]
            ELSE [err |-> "",
                  rows |-> SelectSeq(rows, LAMBDA r : Mask(operator, r[column], value))]

\* every clause applied to the whole dataframe instead of the rows left
RECURSIVE apply_filters_FromFrame(_, _, _, _)
apply_filters_FromFrame(df, rows, items, j) ==
    IF j > Len(items) THEN [err |-> "", rows |-> rows]
    ELSE LET step == apply_filter(df, df.rows, items[j]) IN
         IF step.err # "" THEN step
         ELSE apply_filters_FromFrame(df, step.rows, items, j + 1)

\* lines 150-169: the clauses one after another, each on the rows left
RECURSIVE apply_filters(_, _, _, _)
apply_filters(df, rows, items, j) ==
    IF j > Len(items) THEN [err |-> "", rows |-> rows]
    ELSE LET step == apply_filter(df, rows, items[j]) IN
         IF step.err # "" THEN step
         ELSE apply_filters(df, step.rows, items, j + 1)

\* `result` was never assigned (an allowed operation without a branch)
ResUnbound == [k |-> "unbound", v |-> NaN, items |-> <<>>]

\* lines 172-207
apply_operation(df, rows, plan) ==
    IF plan.operation = "count"
    THEN IF Truthy(plan.group_by)
         THEN [err |-> "", result |-> ResDict(GroupSize(rows, plan.group_by))]
         ELSE [err |-> "", result |-> ResScalar(Val(Len(rows)))]
    ELSE IF plan.operation = "aggregate"
    THEN IF plan.metric \notin df.cols
         THEN [err |-> "KeyError", result |-> ResUnbound]
         ELSE IF Truthy(plan.group_by)
         THEN [err |-> "",
               result |-> ResDict(GroupReduce(rows, plan.group_by, plan.metric,
                                              plan.aggregation))]
         ELSE [err |-> "",
               result |-> ResScalar(Reduce(plan.aggregation, Column(rows, plan.metric)))]
    ELSE [err |-> "", result |-> ResUnbound]

UnboundError == "cannot access local variable 'result'"

\* lines 210-216
apply_sort(result, plan) ==
    IF Truthy(plan.sort)
    THEN IF result.k = "unbound" THEN [err |-> UnboundError, result |-> result]
         ELSE IF result.k = "dict"
         THEN [err |-> "",
               result |-> ResDict(PySorted(result.items, plan.sort = "desc"))]
         ELSE [err |-> "", result |-> result]
    ELSE [err |-> "", result |-> result]

\* lines 219-223
apply_limit(result, plan) ==
    IF plan.limit.k = "int" /\ plan.limit.n # 0
    THEN IF result.k = "unbound" THEN [err |-> UnboundError, result |-> result]
         ELSE IF result.k = "dict"
         THEN [err |-> "", result |-> ResDict(Slice(result.items, plan.limit.n))]
         ELSE [err |-> "", result |-> result]
    ELSE [err |-> "", result |-> result]

\* What execute_plan gives back: it returns the dict {success, result, error}
\* or an exception leaves it (outcome "raise").  stage, rows, afterOp and
\* afterSort record how far the call got and its intermediate values.
ExecRecord(outcome, success, result, error, stage, rows, afterOp, afterSort) ==
    [outcome |-> outcome, success |-> success, result |-> result, error |-> error,
     stage |-> stage, rows |-> rows, afterOp |-> afterOp, afterSort |-> afterSort]

Failure(error, stage, rows, afterOp, afterSort) ==
    ExecRecord("return", FALSE, ResNull, error, stage, rows, afterOp, afterSort)

\* the last listed file instead of the first
QueriedFile_Last(files) == files[Len(files)]

\* line 139: filename = plan['files'][0]
QueriedFile(files) == files[1]

execute_plan(ex, plan) ==
    LET v == validate_plan(ex, plan) IN
    IF v.outcome = "raise"
    THEN ExecRecord("raise", FALSE, ResNull, v.error, "validation", <<>>, ResNull, ResNull)
    ELSE IF ~v.valid
    THEN Failure(v.error, "validation", <<>>, ResNull, ResNull)
    ELSE IF plan.files.l = <<>>
    THEN Failure("list index out of range", "load", <<>>, ResNull, ResNull)
    ELSE
    LET df == get_dataframe(ex, QueriedFile(plan.files.l)) IN
    IF ~df.loaded
    THEN Failure("File not loaded", "load", <<>>, ResNull, ResNull)
    ELSE
    LET f == IF plan.filters.k = "list"
             THEN apply_filters(df, df.rows, plan.filters.l, 1)
             ELSE [err |-> "", rows |-> df.rows]
    IN
    IF f.err # "" THEN Failure(f.err, "filter", <<>>, ResNull, ResNull)
    ELSE
    LET o == apply_operation(df, f.rows, plan) IN
    IF o.err # "" THEN Failure(o.err, "operation", f.rows, ResNull, ResNull)
    ELSE
    LET s == apply_sort(o.result, plan) IN
    IF s.err # "" THEN Failure(s.err, "sort", f.rows, o.result, ResNull)
    ELSE
    LET l == apply_limit(s.result, plan) IN
    IF l.err # "" THEN Failure(l.err, "limit", f.rows, o.result, s.result)
    ELSE IF l.result.k = "unbound"
    THEN Failure(UnboundError, "return", f.rows, o.result, s.result)
    ELSE ExecRecord("return", TRUE, l.result, "", "done", f.rows, o.result, s.result)

----------------------------------------------------------------------------
(* The data folder and the inputs drawn by the model *)

\* a CSV file of the data folder: missing, unreadable, or holding a table
DiskMissing == [state |-> "missing", frame |-> NoFrame]
DiskCorrupt == [state |-> "corrupt", frame |-> NoFrame]
DiskOk(frame) == [state |-> "ok", frame |-> frame]

HoldingsRow(fund, pl) == [Fund |-> fund, PL |-> pl]
TradesRow(fund, qty) == [Fund |-> fund, Qty |-> qty]

\* the rows a holdings.csv is made of: funds A, B, C, a row without a fund
\* and a row without a PL
HoldingsRows ==
    {HoldingsRow(Str("A"), Num(1)), HoldingsRow(Str("A"), Num(2)),
     HoldingsRow(Str("B"), Num(1)), HoldingsRow(Str("B"), NA),
     HoldingsRow(Str("C"), Num(2)), HoldingsRow(NA, Num(1))}

SeqsUpTo(S, n) == UNION {[1..m -> S] : m \in 0..n}

HoldingsFrames == {Frame({"Fund", "PL"}, rows) : rows \in SeqsUpTo(HoldingsRows, MaxRows)}

TradesFrame ==
    Frame({"Fund", "Qty"}, <<TradesRow(Str("A"), Num(5)), TradesRow(Str("B"), Num(7))>>)

\* the example table of the specification
ExampleFrame ==
    Frame({"Fund", "PL"},
          <<HoldingsRow(Str("A"), Num(1)), HoldingsRow(Str("B"), Num(1)),
            HoldingsRow(Str("A"), Num(2))>>)

----------------------------------------------------------------------------
(* FundAnalyticsChatbot and the API *)

VARIABLES
    api_key,           \* OPENAI_API_KEY is set in the environment
    chatbot,           \* the global chatbot is not None
    executor,          \* the QueryExecutor (chatbot.executor)
    pc,                \* position of the process / of the request in flight
    question,          \* request.question of the last chat request
    plan,              \* the plan of the last generate_plan / execute_plan call
    execution_result,  \* what the last execute_plan call gave back
    response,          \* the last HTTP response sent
    calls              \* planner / executor / explainer calls of the request

vars == <<api_key, chatbot, executor, pc, question, plan, execution_result,
          response, calls>>

NoExecutor == Executor(NoFrame, NoFrame)
NoResult == ExecRecord("none", FALSE, ResNull, "", "none", <<>>, ResNull, ResNull)
NoCalls == [planner |-> 0, executor |-> 0, explainer |-> 0]

Response(endpoint, status, success, answer, shown) ==
    [endpoint |-> endpoint, status |-> status, success |-> success,
     answer |-> answer, shown |-> shown]
NoResponse == Response("none", 0, FALSE, <<>>, ResNull)

\* _load_data: any read error leaves both tables unloaded
load_data(trades_file, holdings_file) ==
    IF trades_file.state = "corrupt" \/ holdings_file.state = "corrupt"
    THEN Executor(NoFrame, NoFrame)
    ELSE Executor(trades_file.frame, holdings_file.frame)

Whitespace == {" ", "\t"}
QuestionChars == {" ", "q"}
Questions == SeqsUpTo(QuestionChars, MaxQuestionLen)

RECURSIVE LStrip(_)
LStrip(s) == IF s # <<>> /\ Head(s) \in Whitespace THEN LStrip(Tail(s)) ELSE s

\* str.strip()
Strip(s) == Reverse(LStrip(Reverse(LStrip(s))))

\* the check without the strip
IsBlank_OnlyEmpty(q) == q = <<>>

\* api.py line 99: `not request.question or not request.question.strip()`
IsBlank(q) == q = <<>> \/ Strip(q) = <<>>

Init ==
    /\ api_key \in BOOLEAN
    /\ chatbot = FALSE
    /\ executor = NoExecutor
    /\ pc = "boot"
    /\ question = <<>>
    /\ plan = NoPlan
    /\ execution_result = NoResult
    /\ response = NoResponse
    /\ calls = NoCalls

\* api.py lifespan (startup), with FundAnalyticsChatbot.__init__
Lifespan(TradesFiles, HoldingsFiles) ==
    /\ pc = "boot"
    /\ pc' = "idle"
    /\ IF ~api_key
       THEN chatbot' = FALSE /\ executor' = NoExecutor
       ELSE \E trades_file \in TradesFiles, holdings_file \in HoldingsFiles,
               client_ok \in BOOLEAN :
               IF client_ok
               THEN /\ chatbot' = TRUE
                    /\ executor' = load_data(trades_file, holdings_file)
               ELSE chatbot' = FALSE /\ executor' = NoExecutor
    /\ UNCHANGED <<api_key, question, plan, execution_result, response, calls>>

\* question, plan, execution_result and calls are the locals of the last chat
\* request; a request to another endpoint leaves none behind
Forget ==
    /\ question' = <<>>
    /\ plan' = NoPlan
    /\ execution_result' = NoResult
    /\ calls' = NoCalls

\* GET /
ReadRoot ==
    /\ pc = "idle"
    /\ \E found \in BOOLEAN :
          response' = Response("root", IF found THEN 200 ELSE 404, found, <<>>, ResNull)
    /\ Forget
    /\ UNCHANGED <<api_key, chatbot, executor, pc>>

\* GET /api/health
HealthCheck ==
    /\ pc = "idle"
    /\ response' = Response("health", 200,
                            chatbot /\ (executor.trades_df.loaded
                                        \/ executor.holdings_df.loaded),
                            <<"healthy">>, ResNull)
    /\ Forget
    /\ UNCHANGED <<api_key, chatbot, executor, pc>>

\* get_columns without the `chatbot is None` test: the attribute access on
\* None raises and the handler answers 500
GetColumns_NoGuard ==
    /\ pc = "idle"
    /\ response' = IF ~chatbot
                   THEN Response("columns", 500, FALSE, <<"Error getting columns">>, ResNull)
                   ELSE Response("columns", 200, TRUE, <<"columns">>, ResNull)
    /\ Forget
    /\ UNCHANGED <<api_key, chatbot, executor, pc>>

\* GET /api/columns
GetColumns ==
    /\ pc = "idle"
    /\ response' = IF ~chatbot
                   THEN Response("columns", 503, FALSE, <<"Chatbot not initialized">>, ResNull)
                   ELSE Response("columns", 200, TRUE, <<"columns">>, ResNull)
    /\ Forget
    /\ UNCHANGED <<api_key, chatbot, executor, pc>>

\* POST /api/chat up to the call of answer_question (api.py lines 93-106)
Chat ==
    /\ pc = "idle"
    /\ \E q \in Questions :
          IF ~chatbot
          THEN /\ response' = Response("chat", 503, FALSE,
                                       <<"Chatbot not initialized. Check OPENAI_API_KEY and data files.">>,
                                       ResNull)
               /\ question' = q
               /\ UNCHANGED pc
          ELSE IF IsBlank(q)
          THEN /\ response' = Response("chat", 400, FALSE,
                                       <<"Question cannot be empty">>, ResNull)
               /\ question' = q
               /\ UNCHANGED pc
          ELSE /\ response' = NoResponse
               /\ pc' = "plan"
               /\ question' = q
    /\ plan' = NoPlan
    /\ execution_result' = NoResult
    /\ calls' = NoCalls
    /\ UNCHANGED <<api_key, chatbot, executor>>

Apology == Response("chat", 200, TRUE, <<ERROR_MESSAGE>>, ResNull)

\* answer_question step 1 (chatbot.py lines 58-62), called with the stripped
\* question: generate_plan gives a JSON object of Plans, or None on null /
\* malformed JSON / a failed call
GeneratePlan(Plans) ==
    /\ pc = "plan"
    /\ \E p \in Plans \cup {NoPlan} :
          /\ plan' = p
          /\ IF p.isNone
             THEN pc' = "idle" /\ response' = Apology
             ELSE pc' = "execute" /\ UNCHANGED response
    /\ calls' = [calls EXCEPT !.planner = @ + 1]
    /\ UNCHANGED <<api_key, chatbot, executor, question, execution_result>>

\* step 2 going on to the explainer whatever execute_plan gave back
Execute_AlwaysExplain ==
    /\ pc = "execute"
    /\ pc' = "explain"
    /\ execution_result' = execute_plan(executor, plan)
    /\ calls' = [calls EXCEPT !.executor = @ + 1]
    /\ UNCHANGED <<api_key, chatbot, executor, question, plan, response>>

\* answer_question step 2 (chatbot.py lines 65-68); an exception leaving
\* execute_plan is caught by chat (api.py lines 112-116)
Execute ==
    /\ pc = "execute"
    /\ LET r == execute_plan(executor, plan) IN
          /\ execution_result' = r
          /\ IF r.outcome = "raise"
             THEN /\ pc' = "idle"
                  /\ response' = Response("chat", 200, FALSE,
                                          <<"Error processing question: ", r.error>>,
                                          ResNull)
             ELSE IF ~r.success
             THEN pc' = "idle" /\ response' = Apology
             ELSE pc' = "explain" /\ UNCHANGED response
    /\ calls' = [calls EXCEPT !.executor = @ + 1]
    /\ UNCHANGED <<api_key, chatbot, executor, question, plan>>

\* answer_question step 3 (chatbot.py lines 71-73): the explainer's text,
\* or _simple_explanation of the raw result when the call fails
Explain ==
    /\ pc = "explain"
    /\ pc' = "idle"
    /\ \E llm_ok \in BOOLEAN :
          response' = IF llm_ok
                      THEN Response("chat", 200, TRUE, <<"<explanation>">>, ResNull)
                      ELSE Response("chat", 200, TRUE, <<"Results:">>,
                                    execution_result.result)
    /\ calls' = [calls EXCEPT !.explainer = @ + 1]
    /\ UNCHANGED <<api_key, chatbot, executor, question, plan, execution_result>>

----------------------------------------------------------------------------
(* The plans the planner is taken to return *)

\* plans of every shape the validator distinguishes: missing, null and
\* ill-typed fields, unknown files, operations, aggregations and columns
ShapeFiles ==
    {FilesAbsent, FilesNotList("holdings.csv"), FilesList(<<>>),
     FilesList(<<"holdings.csv">>), FilesList(<<"trades.csv">>),
     FilesList(<<"holdings.csv", "trades.csv">>), FilesList(<<"orders.csv">>)}

ShapeFilters ==
    {FiltersAbsent, FiltersNull, FiltersList(<<>>),
     FiltersList(<<ClauseNum>>), FiltersList(<<ClauseStr>>),
     FiltersList(<<Clause("Fund", "==", Str("A"))>>),
     FiltersList(<<Clause("Nope", "==", Str("A"))>>),
     FiltersList(<<Clause(ABSENT, "==", Str("A"))>>),
     FiltersList(<<Clause("Fund", "~", Str("A"))>>)}

ShapePlans ==
    {Plan(f, o, g, m, a, fl, ABSENT, LimitAbsent) :
        f \in ShapeFiles, o \in {ABSENT, "count", "aggregate", "sort", "drop"},
        g \in {ABSENT, "Fund", "Nope"}, m \in {ABSENT, "PL", "Nope"},
        a \in {ABSENT, "sum", "median"}, fl \in ShapeFilters}

\* queries on holdings.csv, valid but for a filter operator or a sort
\* direction that may lie outside the planner's lists
DirectionPlans ==
    {Plan(FilesList(<<"holdings.csv">>), o, g, "PL", "sum", fl, s, LimitAbsent) :
        o \in {"count", "aggregate"}, g \in {ABSENT, "Fund"},
        fl \in {FiltersAbsent,
                FiltersList(<<Clause("Fund", "!=", Str("A"))>>),
                FiltersList(<<Clause("Fund", "~", Str("A"))>>)},
        s \in {ABSENT, "asc", "desc", "up"}}

\* count and sum queries listing both tables, in either order
TwoTablePlans ==
    {Plan(FilesList(f), o, g, m, "sum", fl, ABSENT, LimitAbsent) :
        f \in {<<"holdings.csv", "trades.csv">>, <<"trades.csv", "holdings.csv">>},
        o \in {"count", "aggregate"}, g \in {ABSENT, "Fund"},
        m \in {ABSENT, "PL", "Qty"},
        fl \in {FiltersAbsent, FiltersList(<<Clause("Fund", "==", Str("A"))>>)}}

ValidatorPlans == ShapePlans \cup DirectionPlans \cup TwoTablePlans

\* well-formed queries on holdings.csv: a count or one of the five
\* aggregations of PL, grouped by Fund or not
QueryBases ==
    {Plan(FilesList(<<"holdings.csv">>), "count", g, ABSENT, ABSENT,
          FiltersAbsent, ABSENT, LimitAbsent) : g \in {ABSENT, "Fund"}}
    \cup
    {Plan(FilesList(<<"holdings.csv">>), "aggregate", g, "PL", a,
          FiltersAbsent, ABSENT, LimitAbsent) :
        g \in {ABSENT, "Fund"}, a \in {"sum", "mean", "min", "max", "count"}}

EqClauses == {Clause("Fund", "==", Str("A")), Clause("PL", "==", Num(1))}

\* ... with up to MaxFilters equality clauses
FilterPlans ==
    {[b EXCEPT !.filters = FiltersList(l)] :
        b \in QueryBases, l \in SeqsUpTo(EqClauses, MaxFilters)}

Limits == {LimitAbsent} \cup {Limit(k) : k \in (0 - MaxLimit)..MaxLimit}

\* ... or with a sort direction and a limit
SortPlans ==
    {[b EXCEPT !.sort = s, !.limit = l] :
        b \in QueryBases, s \in {ABSENT, "asc", "desc"}, l \in Limits}

QueryPlans == FilterPlans \cup SortPlans

\* the plans of the API runs: no plan, plans failing validation, plans that
\* raise, plans failing in execution, and plans that succeed
ApiPlans ==
    {Plan(f, o, g, m, a, fl, ABSENT, LimitAbsent) :
        f \in {FilesList(<<>>), FilesList(<<"holdings.csv">>),
               FilesList(<<"holdings.csv", "trades.csv">>), FilesList(<<"orders.csv">>)},
        o \in {"count", "aggregate", "sort", "drop"},
        g \in {ABSENT, "Fund"}, m \in {ABSENT, "PL"}, a \in {ABSENT, "sum"},
        fl \in {FiltersAbsent, FiltersNull, FiltersList(<<ClauseNum>>),
                FiltersList(<<ClauseStr>>),
                FiltersList(<<Clause("Fund", "==", Str("A"))>>)}}

----------------------------------------------------------------------------
(* Specifications *)

ApiTradesFiles == {DiskMissing, DiskCorrupt, DiskOk(TradesFrame)}
ApiHoldingsFiles == {DiskMissing, DiskCorrupt, DiskOk(ExampleFrame)}

\* the API process: startup, then requests served one at a time
Next ==
    \/ Lifespan(ApiTradesFiles, ApiHoldingsFiles)
    \/ ReadRoot
    \/ HealthCheck
    \/ GetColumns
    \/ Chat
    \/ GeneratePlan(ApiPlans)
    \/ Execute
    \/ Explain

Spec == Init /\ [][Next]_vars

\* a request in flight runs on: each of answer_question's steps is a blocking
\* call that returns or raises, and the handler then takes the next step
SpecFair ==
    /\ Spec
    /\ WF_vars(GeneratePlan(ApiPlans))
    /\ WF_vars(Execute)
    /\ WF_vars(Explain)

\* QueryExecutor.__init__ on a data folder
NewExecutor(TradesFiles, HoldingsFiles) ==
    /\ pc = "boot"
    /\ pc' = "ready"
    /\ \E trades_file \in TradesFiles, holdings_file \in HoldingsFiles :
          executor' = load_data(trades_file, holdings_file)
    /\ UNCHANGED <<api_key, chatbot, question, plan, execution_result, response, calls>>

\* a call of QueryExecutor.execute_plan
CallExecutePlan(Plans) ==
    /\ pc = "ready"
    /\ pc' = "returned"
    /\ \E p \in Plans :
          /\ plan' = p
          /\ execution_result' = execute_plan(executor, p)
    /\ UNCHANGED <<api_key, chatbot, executor, question, response, calls>>

\* the caller drops the result and is ready for the next call
Discard ==
    /\ pc = "returned"
    /\ pc' = "ready"
    /\ plan' = NoPlan
    /\ execution_result' = NoResult
    /\ UNCHANGED <<api_key, chatbot, executor, question, response, calls>>

ExecHoldingsFiles == {DiskMissing} \cup {DiskOk(f) : f \in HoldingsFrames}

\* the executor alone, on every small holdings table, running queries
NextExec ==
    \/ NewExecutor({DiskOk(TradesFrame)}, ExecHoldingsFiles)
    \/ CallExecutePlan(QueryPlans)
    \/ Discard

InitExec == Init /\ api_key = FALSE

SpecExec == InitExec /\ [][NextExec]_vars

\* the executor alone, on the data folders of the API runs, given plans of
\* every shape
NextShape ==
    \/ NewExecutor(ApiTradesFiles, ApiHoldingsFiles)
    \/ CallExecutePlan(ValidatorPlans)
    \/ Discard

SpecShape == InitExec /\ [][NextShape]_vars

----------------------------------------------------------------------------
(* Properties of the validator (checked under SpecShape) *)

\* the plan's first file names a loaded table: the table execute_plan queries
HasTarget == plan.files.k = "list" /\ plan.files.l # <<>>
             /\ get_dataframe(executor, plan.files.l[1]).loaded
Target == get_dataframe(executor, plan.files.l[1])

NamesMissingColumn(df) ==
    \/ Truthy(plan.group_by) /\ plan.group_by \notin df.cols
    \/ Truthy(plan.metric) /\ plan.metric \notin df.cols
    \/ /\ plan.filters.k = "list"
       /\ \E j \in 1..Len(plan.filters.l) :
             /\ plan.filters.l[j].k = "obj"
             /\ plan.filters.l[j].column # ABSENT
             /\ plan.filters.l[j].column \notin df.cols

NamesBadOperation ==
    plan.operation # ABSENT /\ ~InList(plan.operation, ALLOWED_OPERATIONS)
NamesBadAggregation ==
    plan.aggregation # ABSENT /\ ~InList(plan.aggregation, ALLOWED_AGGREGATIONS)

RejectedByValidation ==
    /\ execution_result.outcome = "return"
    /\ ~execution_result.success
    /\ execution_result.result = ResNull
    /\ execution_result.stage = "validation"

\* the filters field is missing or a list of JSON objects
WellFormedFilters ==
    \/ plan.filters.k = "absent"
    \/ /\ plan.filters.k = "list"
       /\ \A j \in 1..Len(plan.filters.l) : plan.filters.l[j].k = "obj"

\* C1: a plan on a loaded table (its filters, if any, a list of objects) that
\* names a group-by, metric or filter column missing from that table, or an
\* operation or aggregation outside the allowed lists, is answered
\* success=false with a null result by validation, before the table's rows
\* are read.
C1_BadPlanRejectedByValidation ==
    (/\ pc = "returned"
     /\ HasTarget
     /\ WellFormedFilters
     /\ \/ NamesBadOperation
        \/ NamesBadAggregation
        \/ NamesMissingColumn(Target))
    => RejectedByValidation

PassedValidation ==
    execution_result.outcome = "return" /\ execution_result.stage # "validation"

\* C2: a plan passes _validate_plan only if its file list is a non-empty list
\* of known, loaded tables and, for operation aggregate, it carries an allowed
\* aggregation and a metric that is a column of those tables.
C2_ValidatorPassesOnlyCompletePlans ==
    (pc = "returned" /\ PassedValidation)
    => /\ plan.files.k = "list"
       /\ plan.files.l # <<>>
       /\ \A i \in 1..Len(plan.files.l) :
             /\ InList(plan.files.l[i], ALLOWED_FILES)
             /\ get_dataframe(executor, plan.files.l[i]).loaded
       /\ plan.operation = "aggregate"
          => /\ InList(plan.aggregation, ALLOWED_AGGREGATIONS)
             /\ Truthy(plan.metric)
             /\ \A i \in 1..Len(plan.files.l) :
                   plan.metric \in get_dataframe(executor, plan.files.l[i]).cols

\* C3: execute_plan never raises, whatever the plan; a failure is returned
\* as success=false with a null result and a non-empty error text.
C3_ExecutePlanNeverRaises ==
    pc = "returned"
    => /\ execution_result.outcome = "return"
       /\ ~execution_result.success
          => execution_result.result = ResNull /\ execution_result.error # ""

NamesBadOperator ==
    /\ plan.filters.k = "list"
    /\ \E j \in 1..Len(plan.filters.l) :
          /\ plan.filters.l[j].k = "obj"
          /\ plan.filters.l[j].operator # ABSENT
          /\ ~InList(plan.filters.l[j].operator, ALLOWED_FILTER_OPERATORS)

NamesBadSort == plan.sort # ABSENT /\ plan.sort \notin SortDirections

\* C11: a count or aggregate plan on a loaded table (its filters, if any, a
\* list of objects) with a filter clause whose operator is not one of ==, !=,
\* >, <, >=, <=, in, or with a sort direction that is neither asc nor desc, is
\* answered success=false by validation and is not executed.
C11_BadOperatorOrSortRejected ==
    (/\ pc = "returned"
     /\ HasTarget
     /\ WellFormedFilters
     /\ plan.operation \in {"count", "aggregate"}
     /\ NamesBadOperator \/ NamesBadSort)
    => RejectedByValidation

\* execute_plan has returned for a plan listing both tables
TwoTables ==
    /\ pc = "returned"
    /\ plan.files.k = "list"
    /\ Len(plan.files.l) = 2
    /\ plan.files.l[1] # plan.files.l[2]
    /\ \A i \in 1..2 : InList(plan.files.l[i], ALLOWED_FILES)

\* the plan with its file list cut down to the i-th listed file
OnlyFile(i) == [plan EXCEPT !.files = FilesList(<<plan.files.l[i]>>)]

Accepted(p) ==
    LET v == validate_plan(executor, p) IN v.outcome = "return" /\ v.valid

\* C12 as stated: a plan listing both tables is accepted by the validator
\* whenever the plan listing only its first table is, and its result is the
\* result of that plan.
C12_TwoTablesAcceptedLikeFirst ==
    (TwoTables /\ Accepted(OnlyFile(1)))
    => /\ Accepted(plan)
       /\ execution_result.result = execute_plan(executor, OnlyFile(1)).result

\* C12 (amended): a plan listing both tables is accepted by the validator
\* only if the plan listing only its first table is accepted (the validator
\* also requires the second table to be loaded and to have every column the
\* plan names); when it is accepted, execute_plan queries the first listed
\* table only: success, result and error are those of the plan with the
\* file list reduced to its first element.
C12_AcceptedTwoTablesRunAsFirst ==
    (TwoTables /\ Accepted(plan))
    => /\ Accepted(OnlyFile(1))
       /\ execution_result = execute_plan(executor, OnlyFile(1))

\* an accepted two-table plan succeeded with the first table's result,
\* which is not what the second table gives
C12_Witness ==
    /\ TwoTables
    /\ Accepted(plan)
    /\ execution_result.success
    /\ execution_result.result = execute_plan(executor, OnlyFile(1)).result
    /\ execution_result.result # execute_plan(executor, OnlyFile(2)).result

----------------------------------------------------------------------------
(* Properties of the API (checked under Spec) *)

ChatAnswered == pc = "idle" /\ response.endpoint = "chat" /\ calls.planner > 0

PlanFailed ==
    \/ plan.isNone
    \/ execution_result.outcome = "raise"
    \/ execution_result.outcome = "return" /\ ~execution_result.success

\* C4: when the planner gives no plan, or validation or execution of the plan
\* fails, the answer of POST /api/chat is exactly ERROR_MESSAGE and carries
\* neither the validator's reason nor the exception text.
C4_FailureAnswerIsApology ==
    (ChatAnswered /\ PlanFailed)
    => /\ response.answer = <<ERROR_MESSAGE>>
       /\ ~InList(execution_result.error, response.answer)

\* the last request was a chat request with an empty or all-whitespace question
AllWhitespace(q) == \A i \in 1..Len(q) : q[i] \in Whitespace
BlankChat == (pc # "idle" \/ response.endpoint = "chat") /\ pc # "boot"
             /\ AllWhitespace(question)

NothingRun ==
    /\ pc = "idle"
    /\ calls = NoCalls
    /\ plan = NoPlan
    /\ execution_result = NoResult

\* C5 as stated: a chat request with an empty or all-whitespace question is
\* refused with HTTP 400 and nothing is planned, executed or explained.
C5_BlankQuestionGets400 ==
    BlankChat => response.status = 400 /\ NothingRun

\* C5 (amended): a chat request with an empty or all-whitespace question is
\* refused at the API boundary, with HTTP 400 when the chatbot is initialised
\* and with HTTP 503 when it is not; the planner is never called, no plan is
\* generated and nothing is executed or explained.
C5_BlankQuestionRefused ==
    BlankChat
    => /\ response.status = (IF chatbot THEN 400 ELSE 503)
       /\ ~response.success
       /\ NothingRun

C5_Witness ==
    /\ chatbot
    /\ response.endpoint = "chat"
    /\ question = <<" ", " ">>
    /\ response.status = 400
    /\ NothingRun

\* C6 as stated: when the API key is missing at startup, or neither table
\* could be loaded, the chat and columns endpoints answer every request with
\* 503.
C6_DegradedStartupGives503 ==
    (/\ pc # "boot"
     /\ \/ ~api_key
        \/ ~executor.trades_df.loaded /\ ~executor.holdings_df.loaded
     /\ response.endpoint \in {"chat", "columns"})
    => response.status = 503

\* C6 (amended): when the API key is missing at startup, or the chatbot could
\* not be constructed, the chatbot stays uninitialised and the chat and
\* columns endpoints answer every request with 503 for the lifetime of the
\* process; missing data files alone do not degrade them: the chatbot is
\* initialised with no tables and neither endpoint answers 503.
C6_UninitialisedGives503 ==
    pc # "boot"
    => /\ ~api_key => ~chatbot
       /\ response.endpoint \in {"chat", "columns"}
          => (response.status = 503 <=> ~chatbot)

C6_Witness ==
    /\ ~api_key
    /\ response.endpoint = "columns"
    /\ response.status = 503

----------------------------------------------------------------------------
(* Properties of the executor's queries (checked under SpecExec) *)

Returned == pc = "returned" /\ HasTarget

\* the sum of a numeric column over the rows with index in I, a missing cell
\* counting as nothing
RECURSIVE MetricTotal(_, _, _)
MetricTotal(rows, metric, I) ==
    IF I = {} THEN 0
    ELSE LET i == CHOOSE x \in I : TRUE
             c == rows[i][metric]
         IN (IF c.k = "num" THEN c.n ELSE 0) + MetricTotal(rows, metric, I \ {i})

RECURSIVE ItemsTotal(_)
ItemsTotal(items) ==
    IF items = <<>> THEN 0 ELSE Head(items).val.n + ItemsTotal(Tail(items))

Indices(rows) == 1..Len(rows)
ItemKeys(items) == {items[i].key : i \in 1..Len(items)}

\* the same plan without its group_by
Ungrouped == execute_plan(executor, [plan EXCEPT !.group_by = ABSENT])

GroupedSum ==
    /\ Returned
    /\ plan.operation = "aggregate"
    /\ plan.aggregation = "sum"
    /\ Truthy(plan.group_by)
    /\ plan.sort = ABSENT
    /\ plan.limit = LimitAbsent

\* the result is a mapping with one entry per group value present in the
\* rows, each the sum of the metric over the rows of that group
PerGroupSums ==
    LET rows == execution_result.rows
        items == execution_result.result.items
    IN /\ execution_result.success
       /\ execution_result.result.k = "dict"
       /\ ItemKeys(items) = {rows[i][plan.group_by] : i \in Indices(rows)} \ {NA}
       /\ Len(items) = Cardinality(ItemKeys(items))
       /\ \A e \in 1..Len(items) :
             items[e].val =
                Val(MetricTotal(rows, plan.metric,
                                {i \in Indices(rows) : rows[i][plan.group_by] = items[e].key}))

\* C7 as stated: a grouped sum gives one entry per group value, each the sum
\* of the metric over the group's rows, and the entries add up to the result
\* of the same plan without group_by.
C7_GroupSumsAddUpToUngroupedSum ==
    GroupedSum
    => /\ PerGroupSums
       /\ Ungrouped.result.k = "scalar"
       /\ Val(ItemsTotal(execution_result.result.items)) = Ungrouped.result.v

\* C7 (amended): a grouped sum gives one entry per group value that is not
\* missing, each the sum of the metric over the group's rows (a missing metric
\* cell adds nothing); rows whose group value is missing belong to no entry,
\* so the entries add up to the ungrouped sum less the metric of those rows,
\* and to the ungrouped sum itself when no row lacks its group value.
C7_GroupSumsAddUpToSumOfGroupedRows ==
    GroupedSum
    => LET rows == execution_result.rows
           ungroupedRows == {i \in Indices(rows) : rows[i][plan.group_by] = NA}
       IN /\ PerGroupSums
          /\ Ungrouped.result.k = "scalar"
          /\ Val(ItemsTotal(execution_result.result.items)
                 + MetricTotal(rows, plan.metric, ungroupedRows))
             = Ungrouped.result.v

\* the specification's example: rows (A,1), (B,1), (A,2) give {A: 3, B: 1}
C7_Witness ==
    /\ GroupedSum
    /\ executor.holdings_df = ExampleFrame
    /\ plan.filters.k = "absent"
    /\ execution_result.result
          = ResDict(<<Item(Str("A"), Val(3)), Item(Str("B"), Val(1))>>)

Prefix(a, b) == Len(a) <= Len(b) /\ a = SubSeq(b, 1, Len(a))

Limited ==
    /\ Returned
    /\ execution_result.success
    /\ plan.limit.k = "int"
    /\ execution_result.afterSort.k = "dict"

\* C8 as stated: with limit=k, whatever the integer k, the mapping returned
\* has at most k entries, the first entries of the sorted mapping in order.
C8_LimitKeepsAtMostK ==
    Limited
    => /\ Len(execution_result.result.items) <= plan.limit.n
       /\ Prefix(execution_result.result.items, execution_result.afterSort.items)

\* C8 (amended): with limit=k and k positive, the mapping returned has at most
\* k entries (all of them when there are fewer than k), the first entries of
\* the sorted mapping in order; limit=0 truncates nothing, and a negative k
\* drops the last |k| entries.
C8_LimitKeepsFirstEntries ==
    Limited
    => LET k == plan.limit.n
           n == Len(execution_result.afterSort.items)
           kept == Len(execution_result.result.items)
       IN /\ execution_result.result.k = "dict"
          /\ Prefix(execution_result.result.items, execution_result.afterSort.items)
          /\ k > 0 => kept <= k /\ kept = (IF n < k THEN n ELSE k)
          /\ k = 0 => kept = n
          /\ k < 0 => kept = (IF n + k > 0 THEN n + k ELSE 0)

C8_Witness ==
    /\ Limited
    /\ plan.sort = "desc"
    /\ plan.limit.n = 2
    /\ Len(execution_result.afterSort.items) = 3
    /\ Len(execution_result.result.items) = 2

\* C9: with sort=desc the values of the mapping, in entry order, never
\* increase, and the mapping holds the key/value pairs of the unsorted result.
C9_DescSortIsNonIncreasing ==
    (/\ Returned
     /\ execution_result.success
     /\ plan.sort = "desc"
     /\ execution_result.afterOp.k = "dict")
    => LET sorted == execution_result.afterSort.items
           unsorted == execution_result.afterOp.items
       IN /\ \A i, j \in 1..Len(sorted) :
                i < j => ~ValLess(sorted[i].val, sorted[j].val)
          /\ Len(sorted) = Len(unsorted)
          /\ {sorted[i] : i \in 1..Len(sorted)} = {unsorted[i] : i \in 1..Len(unsorted)}

\* the row satisfies every == clause of the plan
MatchesAll(row) ==
    \A j \in 1..Len(plan.filters.l) :
        /\ row[plan.filters.l[j].column] # NA
        /\ row[plan.filters.l[j].column] = plan.filters.l[j].value

EqFiltered ==
    /\ Returned
    /\ plan.filters.k = "list"
    /\ \A j \in 1..Len(plan.filters.l) :
          /\ plan.filters.l[j].operator = "=="
          /\ plan.filters.l[j].column \in Target.cols

\* C10: with == clauses on existing columns, the rows that reach the count or
\* aggregation are the table's rows that equal the literal in every filtered
\* column, in table order, and an ungrouped count is their number.
C10_EqFiltersKeepMatchingRows ==
    EqFiltered
    => /\ execution_result.success
       /\ execution_result.rows = SelectSeq(Target.rows, MatchesAll)
       /\ (plan.operation = "count" /\ ~Truthy(plan.group_by))
          => execution_result.result
                = ResScalar(Val(Cardinality({i \in Indices(Target.rows) :
                                                MatchesAll(Target.rows[i])})))

\* two clauses on different columns, each dropping a row the other keeps
C10_Witness ==
    /\ EqFiltered
    /\ plan.operation = "count" /\ ~Truthy(plan.group_by)
    /\ Len(plan.filters.l) = 2
    /\ plan.filters.l[1].column # plan.filters.l[2].column
    /\ execution_result.result = ResScalar(Val(1))
    /\ \E i, j \in Indices(Target.rows) :
          /\ Target.rows[i][plan.filters.l[1].column] = plan.filters.l[1].value
          /\ Target.rows[i][plan.filters.l[2].column] # plan.filters.l[2].value
          /\ Target.rows[j][plan.filters.l[1].column] # plan.filters.l[1].value
          /\ Target.rows[j][plan.filters.l[2].column] = plan.filters.l[2].value

----------------------------------------------------------------------------
(* The steps of a chat request (checked under SpecFair) *)

\* answer_question is running for the request
InFlight == pc \in {"plan", "execute", "explain"}

\* the chat request has been answered
ChatDone == pc = "idle" /\ response.endpoint = "chat"

ExecutionSucceeded ==
    execution_result.outcome = "return" /\ execution_result.success

\* where the request stands tells which steps have run, each once
StepsInOrder ==
    /\ pc = "plan" => calls = NoCalls
    /\ pc = "execute"
       => calls = [planner |-> 1, executor |-> 0, explainer |-> 0] /\ ~plan.isNone
    /\ pc = "explain"
       => /\ calls = [planner |-> 1, executor |-> 1, explainer |-> 0]
          /\ ~plan.isNone
          /\ ExecutionSucceeded

\* what has run when the response is sent
StepsAtResponse ==
    ChatDone
    => IF response.status # 200 THEN calls = NoCalls
       ELSE /\ calls.planner = 1
            /\ calls.executor = (IF plan.isNone THEN 0 ELSE 1)
            /\ calls.explainer = (IF calls.executor = 1 /\ ExecutionSucceeded
                                  THEN 1 ELSE 0)
            /\ plan.isNone => response = Apology
            /\ calls.explainer = 1
               => \/ response = Response("chat", 200, TRUE, <<"<explanation>">>, ResNull)
                  \/ response = Response("chat", 200, TRUE, <<"Results:">>,
                                         execution_result.result)

\* C13: a chat request handed to answer_question runs plan, execute, explain
\* in that order and at most once each: the planner is called exactly once,
\* the executor only for a non-null plan, the explainer only after a
\* successful execution; no step is repeated (a null plan ends the request
\* with the apology, a failed explainer call with the fallback showing the
\* raw result); a request refused with 400 or 503 runs no step; and every
\* request in flight ends with a response.
C13_StepsOnceInOrderThenResponse ==
    /\ [](StepsInOrder /\ StepsAtResponse)
    /\ [][calls' # NoCalls
          => /\ calls'.planner >= calls.planner
             /\ calls'.executor >= calls.executor
             /\ calls'.explainer >= calls.explainer
             /\ calls'.planner + calls'.executor + calls'.explainer
                = calls.planner + calls.executor + calls.explainer + 1]_vars
    /\ InFlight ~> ChatDone

\* the explainer call failed after a successful execution: all three steps
\* ran once and the answer is the fallback showing the raw result
C13_Witness ==
    /\ ChatDone
    /\ calls = [planner |-> 1, executor |-> 1, explainer |-> 1]
    /\ response.answer = <<"Results:">>
    /\ response.shown = execution_result.result
    /\ response.shown.k = "dict"

====
